---- MODULE Spec2Model ----
(***************************************************************************)
(* Model of the table-formats benchmark: the seeded record and question    *)
(* generators, the eleven encoders, the cached task assembler of           *)
(* evals/table_formats_eval.py and the driver loop of                      *)
(* scripts/run_benchmarks.py.                                              *)
(*                                                                         *)
(* A text (Python str) is a sequence of chunks; the empty string is <<>>.  *)
(* Literal pieces of a format string are one chunk each, a rendered        *)
(* integer is one chunk per digit.                                         *)
(***************************************************************************)
EXTENDS Integers, Sequences, FiniteSets, TLC

VARIABLES
  stream,           \* seed -> variates random.Random(seed) yields, in order
  RECORDS_CACHE,    \* num_records -> records
  QUESTIONS_CACHE,  \* <<num_records, num_questions>> -> questions
  FORMATTED_CACHE,  \* <<format_key, num_records>> -> text
  SAMPLES_CACHE,    \* <<format_key, num_records, num_questions>> -> samples
  ret,              \* the last call: operation, arguments, outcome
  history,          \* build_samples arguments -> result of the first successful call
  noted,            \* an earlier generator call an observer remembered, and the
                    \* keys RECORDS_CACHE held then
  models, formats, log_root,      \* arguments of run_evaluations
  pc, mi, fi,                     \* position of run_evaluations
  harness,                        \* harness invocations launched, in order
  printed,                        \* lines printed by run_evaluations
  exit_code,                      \* exit status of the driver process
  frame             \* the call of generate_employee_records that runs step by
                    \* step: its position and its locals

vars == <<stream, RECORDS_CACHE, QUESTIONS_CACHE, FORMATTED_CACHE, SAMPLES_CACHE,
          ret, history, noted, models, formats, log_root, pc, mi, fi,
          harness, printed, exit_code, frame>>

cacheVars == <<RECORDS_CACHE, QUESTIONS_CACHE, FORMATTED_CACHE, SAMPLES_CACHE, history>>
driverVars == <<models, formats, log_root, pc, mi, fi, harness, printed, exit_code>>

----------------------------------------------------------------------------
(* Bounds *)

RngMax == 1         \* variates are drawn from 0..RngMax
StreamPeriod == 5   \* the enumerated streams repeat after this many variates
MaxCount == 2       \* largest count handed to a generator directly
MaxRecords == 2     \* largest num_records handed to the cached layer
MaxQuestions == 1   \* largest num_questions handed to the cached layer
MaxModels == 2      \* most models handed to run_evaluations
MaxFormats == 2     \* most formats handed to run_evaluations
NumFormats == 1     \* registered formats the calls of the cached layer name
MaxNumber == 1      \* suffix numbers of the stepwise name loop are 0..MaxNumber

----------------------------------------------------------------------------
(* Program constants *)

RECORD_SEED == 202310
QUESTION_SEED == 424242

FIRST_NAMES ==
  <<"Alice", "Benjamin", "Charlotte", "Diana", "Elliot", "Fiona", "Grace",
    "Henry", "Isla", "Jack", "Liam", "Maya", "Noah", "Olivia", "Paige",
    "Quinn", "Riley", "Sophia", "Theo", "Uma", "Violet", "Wyatt", "Xavier",
    "Yara", "Zane">>

ascii_uppercase ==
  <<"A", "B", "C", "D", "E", "F", "G", "H", "I", "J", "K", "L", "M",
    "N", "O", "P", "Q", "R", "S", "T", "U", "V", "W", "X", "Y", "Z">>

CITIES ==
  <<"London", "New York", "San Francisco", "Berlin", "Paris", "Sydney",
    "Toronto", "Singapore", "Tokyo", "Dublin", "Chicago", "Austin", "Madrid",
    "Amsterdam", "Dubai", "Stockholm", "Zurich", "Hong Kong", "Vancouver",
    "Seoul">>

DEPARTMENTS ==
  <<"Engineering", "Product", "Design", "Operations", "Finance", "Marketing",
    "Sales", "Support", "Customer Success", "Data">>

\* keys of NUMERIC_FIELDS, in insertion order
NUMERIC_FIELD_KEYS == <<"salary", "years_experience", "age", "project_count">>

\* NUMERIC_FIELDS[field].format(name=name)
NUMERIC_FIELDS(field, name) ==
  CASE field = "salary" ->
         <<"What is ">> \o name \o <<"'s salary? (Return just the number, e.g. '85200'.)">>
    [] field = "years_experience" ->
         <<"How many years of experience does ">> \o name
           \o <<" have? (Return just the number, e.g. '12'.)">>
    [] field = "age" ->
         <<"How old is ">> \o name \o <<"? (Return just the number, e.g. '42'.)">>
    [] field = "project_count" ->
         <<"How many projects has ">> \o name
           \o <<" completed? (Return just the number, e.g. '15'.)">>

RECORD_KEYS_swapped ==
  <<"id", "name", "age", "department", "city", "salary", "years_experience",
    "project_count">>

\* keys of an EmployeeRecord, in the insertion order of the dict literal
RECORD_KEYS ==
  <<"id", "name", "age", "city", "department", "salary", "years_experience",
    "project_count">>

----------------------------------------------------------------------------
(* Text helpers *)

Max(a, b) == IF a >= b THEN a ELSE b

Digit(d) ==
  CASE d = 0 -> "0" [] d = 1 -> "1" [] d = 2 -> "2" [] d = 3 -> "3"
    [] d = 4 -> "4" [] d = 5 -> "5" [] d = 6 -> "6" [] d = 7 -> "7"
    [] d = 8 -> "8" [] d = 9 -> "9"

RECURSIVE Digits(_)
Digits(n) == IF n < 10 THEN <<Digit(n)>> ELSE Digits(n \div 10) \o <<Digit(n % 10)>>

\* str(n) of an int
Str(n) == IF n < 0 THEN <<"-">> \o Digits(0 - n) ELSE Digits(n)

\* f"{n:03d}" of a non-negative int
Pad3(n) ==
  IF n < 10 THEN <<"0", "0">> \o Digits(n)
  ELSE IF n < 100 THEN <<"0">> \o Digits(n)
  ELSE Digits(n)

\* sep.join(parts), parts a sequence of texts
RECURSIVE Join(_, _)
Join(sep, parts) ==
  IF Len(parts) = 0 THEN <<>>
  ELSE IF Len(parts) = 1 THEN parts[1]
  ELSE parts[1] \o sep \o Join(sep, Tail(parts))

Whitespace == {" ", "\n", "\r\n", "\t"}

RECURSIVE LStrip(_)
LStrip(t) == IF Len(t) > 0 /\ t[1] \in Whitespace THEN LStrip(Tail(t)) ELSE t

RECURSIVE RStrip(_)
RStrip(t) ==
  IF Len(t) > 0 /\ t[Len(t)] \in Whitespace THEN RStrip(SubSeq(t, 1, Len(t) - 1)) ELSE t

\* text.strip()
Strip(t) == RStrip(LStrip(t))

----------------------------------------------------------------------------
(* random.Random *)

Seeds == {RECORD_SEED, QUESTION_SEED}

Hang == "hang"   \* outcome of a call that never returns

Random_continuing(seed) == [seed |-> seed, pos |-> IF ret.op = "start" THEN 0 ELSE 1]

\* random.Random(seed): a generator at the start of the seed's stream
Random(seed) == [seed |-> seed, pos |-> 0]

\* the k-th next variate of rng; stream[seed] is one period of the stream
Variate(rng, k) == stream[rng.seed][((rng.pos + k - 1) % StreamPeriod) + 1]

Advance(rng, k) == [rng EXCEPT !.pos = @ + k]

\* rng._randbelow(n) computed from the variate u: a value of 0..n-1
randbelow(n, u) == (u * (n - 1)) \div RngMax

\* rng.randint(a, b) computed from the variate u
randint(a, b, u) == a + randbelow(b - a + 1, u)

\* rng.choice(seq) computed from the variate u
choice(seq, u) == seq[1 + randbelow(Len(seq), u)]

----------------------------------------------------------------------------
(* generate_employee_records *)

unused_unchecked(candidate, used_names) == TRUE

\* the test that ends the loop of _random_name
unused(candidate, used_names) == candidate \notin used_names

\* _random_name; after StreamPeriod attempts the stream repeats the candidates
\* it has already yielded, so the loop never ends
RECURSIVE _random_name(_, _, _)
_random_name(rng, used_names, attempts) ==
  IF attempts >= StreamPeriod THEN [found |-> FALSE, name |-> <<>>, rng |-> rng]
  ELSE
    LET first == choice(FIRST_NAMES, Variate(rng, 1))
        suffix_letter == choice(ascii_uppercase, Variate(rng, 2))
        suffix_number == randint(0, 999, Variate(rng, 3))
        candidate == <<first, " ", suffix_letter>> \o Pad3(suffix_number)
    IN IF unused(candidate, used_names)
       THEN [found |-> TRUE, name |-> candidate, rng |-> Advance(rng, 3)]
       ELSE _random_name(Advance(rng, 3), used_names, attempts + 1)

max_experience_off(age) == Max(0, age - 17)

max_experience(age) == Max(0, age - 18)

\* the record made under the name nm.name, drawn with the generator nm.rng
employee_record(idx, nm) ==
  LET r == nm.rng
      age == randint(22, 67, Variate(r, 1))
      years_experience == randint(0, max_experience(age), Variate(r, 2))
      salary == randint(45000, 165000, Variate(r, 3))
      project_count == randint(0, 60, Variate(r, 4))
      city == choice(CITIES, Variate(r, 5))
      department == choice(DEPARTMENTS, Variate(r, 6))
  IN [id |-> idx, name |-> nm.name, age |-> age, city |-> city,
      department |-> department, salary |-> salary,
      years_experience |-> years_experience,
      project_count |-> project_count]

RECURSIVE records_loop(_, _, _, _, _)
\* one turn of the loop, nm being what _random_name returned
records_step(idx, count, nm, used_names, records) ==
  IF ~nm.found THEN [err |-> Hang, val |-> <<>>]
  ELSE records_loop(idx + 1, count, Advance(nm.rng, 6), used_names \cup {nm.name},
                    Append(records, employee_record(idx, nm)))

records_loop(idx, count, rng, used_names, records) ==
  IF idx > count THEN [err |-> "", val |-> records]
  ELSE records_step(idx, count, _random_name(rng, used_names, 0), used_names, records)

generate_employee_records(count, seed) ==
  records_loop(1, count, Random(seed), {}, <<>>)

----------------------------------------------------------------------------
(* generate_questions *)

answer_field_first(field) == NUMERIC_FIELD_KEYS[1]

\* the field whose value the answer is taken from
answer_field(field) == field

RECURSIVE questions_loop(_, _, _, _)
questions_loop(n, records, rng, questions) ==
  IF n <= 0 THEN [err |-> "", val |-> questions]
  ELSE IF Len(records) = 0 THEN [err |-> "IndexError", val |-> <<>>]
  ELSE
    LET record == choice(records, Variate(rng, 1))
        field == choice(NUMERIC_FIELD_KEYS, Variate(rng, 2))
        question == NUMERIC_FIELDS(field, record.name)
        answer == Str(record[answer_field(field)])
        qa == [record_id |-> record.id, field |-> field, question |-> question,
               answer |-> answer]
    IN questions_loop(n - 1, records, Advance(rng, 2), Append(questions, qa))

generate_questions(records, count, seed) ==
  questions_loop(count, records, Random(seed), <<>>)

----------------------------------------------------------------------------
(* The eleven encoders.  Each returns a text. *)

IsStrField(key) == key \in {"name", "city", "department"}

\* str(record[key])
FieldText(record, key) ==
  IF key = "name" THEN record.name
  ELSE IF IsStrField(key) THEN <<record[key]>>
  ELSE Str(record[key])

\* json.dumps(record[key])
JsonValue(record, key) ==
  IF IsStrField(key) THEN <<"\"">> \o FieldText(record, key) \o <<"\"">>
  ELSE FieldText(record, key)

NumKeys == Len(RECORD_KEYS)

no_records_never(records) == FALSE

\* not records
no_records(records) == Len(records) = 0

RECURSIVE Flatten(_)
Flatten(ss) == IF Len(ss) = 0 THEN <<>> ELSE ss[1] \o Flatten(Tail(ss))

NL == <<"\n">>

format_json(records) ==
  IF Len(records) = 0 THEN <<"[]">>
  ELSE
    LET member(record, i) ==
          <<"    \"", RECORD_KEYS[i], "\": ">> \o JsonValue(record, RECORD_KEYS[i])
        object(record) ==
          <<"  {\n">>
            \o Join(<<",\n">>, [i \in 1..NumKeys |-> member(record, i)])
            \o <<"\n  }">>
    IN <<"[\n">>
         \o Join(<<",\n">>, [n \in 1..Len(records) |-> object(records[n])])
         \o <<"\n]">>

format_csv(records) ==
  IF no_records(records) THEN <<>>
  ELSE
    LET fieldnames == RECORD_KEYS
        header == Join(<<",">>, [i \in 1..NumKeys |-> <<fieldnames[i]>>]) \o <<"\r\n">>
        row(record) ==
          Join(<<",">>, [i \in 1..NumKeys |-> FieldText(record, fieldnames[i])])
            \o <<"\r\n">>
    IN Strip(header \o Flatten([n \in 1..Len(records) |-> row(records[n])]))

format_xml(records) ==
  LET element(record) ==
        << <<"  <employee id=\"">> \o Str(record.id) \o <<"\">">>,
           <<"    <name>">> \o record.name \o <<"</name>">>,
           <<"    <age>">> \o Str(record.age) \o <<"</age>">>,
           <<"    <city>", record.city, "</city>">>,
           <<"    <department>", record.department, "</department>">>,
           <<"    <salary>">> \o Str(record.salary) \o <<"</salary>">>,
           <<"    <years_experience>">> \o Str(record.years_experience)
             \o <<"</years_experience>">>,
           <<"    <project_count>">> \o Str(record.project_count)
             \o <<"</project_count>">>,
           <<"  </employee>">> >>
      lines == << <<"<?xml version=\"1.0\" encoding=\"UTF-8\"?>">>, <<"<employees>">> >>
                 \o Flatten([n \in 1..Len(records) |-> element(records[n])])
                 \o << <<"</employees>">> >>
  IN Join(NL, lines)

format_yaml(records) ==
  LET entry(record) ==
        << <<"  - id: ">> \o Str(record.id),
           <<"    name: \"">> \o record.name \o <<"\"">>,
           <<"    age: ">> \o Str(record.age),
           <<"    city: \"", record.city, "\"">>,
           <<"    department: \"", record.department, "\"">>,
           <<"    salary: ">> \o Str(record.salary),
           <<"    years_experience: ">> \o Str(record.years_experience),
           <<"    project_count: ">> \o Str(record.project_count) >>
      lines == << <<"records:">> >> \o Flatten([n \in 1..Len(records) |-> entry(records[n])])
  IN Join(NL, lines)

format_html(records) ==
  IF no_records(records) THEN <<>>
  ELSE
    LET headers == RECORD_KEYS
        row(record) ==
          << <<"    <tr>">> >>
            \o [i \in 1..NumKeys |->
                  <<"      <td>">> \o FieldText(record, headers[i]) \o <<"</td>">>]
            \o << <<"    </tr>">> >>
        lines == << <<"<table>">>, <<"  <thead>">>, <<"    <tr>">> >>
                   \o [i \in 1..NumKeys |-> <<"      <th scope=\"col\">", headers[i], "</th>">>]
                   \o << <<"    </tr>">>, <<"  </thead>">>, <<"  <tbody>">> >>
                   \o Flatten([n \in 1..Len(records) |-> row(records[n])])
                   \o << <<"  </tbody>">>, <<"</table>">> >>
    IN Join(NL, lines)

format_markdown_table(records) ==
  IF no_records(records) THEN <<>>
  ELSE
    LET headers == RECORD_KEYS
        header_row == <<"| ">> \o Join(<<" | ">>, [i \in 1..NumKeys |-> <<headers[i]>>])
                        \o <<" |">>
        divider_row == <<"| ">> \o Join(<<" | ">>, [i \in 1..NumKeys |-> <<"---">>])
                         \o <<" |">>
        row(record) ==
          <<"| ">> \o Join(<<" | ">>, [i \in 1..NumKeys |-> FieldText(record, headers[i])])
            \o <<" |">>
        body_rows == [n \in 1..Len(records) |-> row(records[n])]
    IN Join(NL, <<header_row, divider_row>> \o body_rows)

\* the code fence line: three grave accents, a character a TLA+ string cannot hold
FENCE == <<"<grave><grave><grave>">>

format_markdown_kv(records) ==
  LET section(record) ==
        << <<>>, <<"## Record ">> \o Str(record.id), <<>>, FENCE >>
          \o [i \in 1..NumKeys |->
                <<RECORD_KEYS[i], ": ">> \o FieldText(record, RECORD_KEYS[i])]
          \o << FENCE >>
      lines == << <<"# Employee Database">> >>
                 \o Flatten([n \in 1..Len(records) |-> section(records[n])])
  IN Join(NL, lines)

format_ini(records) ==
  LET section(record) ==
        << <<"[employee_">> \o Str(record.id) \o <<"]">> >>
          \o [i \in 1..NumKeys |->
                <<RECORD_KEYS[i], " = ">> \o FieldText(record, RECORD_KEYS[i])]
          \o << <<>> >>
      lines == Flatten([n \in 1..Len(records) |-> section(records[n])])
  IN Strip(Join(NL, lines))

format_pipe_delimited(records) ==
  IF no_records(records) THEN <<>>
  ELSE
    LET headers == RECORD_KEYS
        parts(record) ==
          [i \in 1..NumKeys |-> <<headers[i], ": ">> \o FieldText(record, headers[i])]
        rows == [n \in 1..Len(records) |-> Join(<<" | ">>, parts(records[n]))]
    IN Join(NL, rows)

format_jsonl(records) ==
  LET dumps(record) ==
        <<"{">>
          \o Join(<<", ">>,
                  [i \in 1..NumKeys |->
                     <<"\"", RECORD_KEYS[i], "\": ">> \o JsonValue(record, RECORD_KEYS[i])])
          \o <<"}">>
  IN Join(NL, [n \in 1..Len(records) |-> dumps(records[n])])

format_natural_language(records) ==
  LET paragraph(record) ==
        << <<>>,
           record.name \o <<" (ID: ">> \o Str(record.id) \o <<") is a ">>
             \o Str(record.age) \o <<"-year-old employee working in the ">>
             \o <<record.department, " department in ", record.city, ". They earn $">>
             \o Str(record.salary) \o <<" with ">> \o Str(record.years_experience)
             \o <<" years of experience and have completed ">>
             \o Str(record.project_count) \o <<" projects.">> >>
      lines == << <<"Employee Records Summary:">> >>
                 \o Flatten([n \in 1..Len(records) |-> paragraph(records[n])])
  IN Join(NL, lines)

FORMAT_ORDER ==
  <<"json", "csv", "xml", "yaml", "html", "markdown_table", "markdown_kv", "ini",
    "pipe_delimited", "jsonl", "natural_language">>

\* the keys of FORMAT_SPECS
FORMAT_KEYS == {FORMAT_ORDER[i] : i \in 1..Len(FORMAT_ORDER)}

\* FORMAT_SPECS[key].label
FormatLabel(key) ==
  CASE key = "json" -> "JSON array"
    [] key = "csv" -> "CSV"
    [] key = "xml" -> "XML"
    [] key = "yaml" -> "YAML"
    [] key = "html" -> "HTML table"
    [] key = "markdown_table" -> "Markdown table"
    [] key = "markdown_kv" -> "Markdown key-value blocks"
    [] key = "ini" -> "INI sections"
    [] key = "pipe_delimited" -> "Pipe-delimited records"
    [] key = "jsonl" -> "JSON Lines"
    [] key = "natural_language" -> "Natural language summary"

\* FORMAT_SPECS[key].formatter(records)
Formatter(key, records) ==
  CASE key = "json" -> format_json(records)
    [] key = "csv" -> format_csv(records)
    [] key = "xml" -> format_xml(records)
    [] key = "yaml" -> format_yaml(records)
    [] key = "html" -> format_html(records)
    [] key = "markdown_table" -> format_markdown_table(records)
    [] key = "markdown_kv" -> format_markdown_kv(records)
    [] key = "ini" -> format_ini(records)
    [] key = "pipe_delimited" -> format_pipe_delimited(records)
    [] key = "jsonl" -> format_jsonl(records)
    [] key = "natural_language" -> format_natural_language(records)

----------------------------------------------------------------------------
(* Calls and their outcomes *)

NoWork == [records |-> 0, questions |-> 0, formatter |-> 0]

Outcome(op, args, r) ==
  [op |-> op, args |-> args, err |-> r.err, val |-> r.val,
   work |-> NoWork, repeat |-> FALSE]

Start == [op |-> "start", args |-> <<>>, err |-> "", val |-> <<>>,
          work |-> NoWork, repeat |-> FALSE]

\* the enumerated streams, each given by one period
Streams == [1..StreamPeriod -> 0..RngMax]

\* the stream with every variate of t mirrored
Mirror(t) == [k \in 1..StreamPeriod |-> RngMax - t[k]]

CountInputs == (0 - 1)..MaxCount

\* record sequences handed to generate_questions
RecordInputs == {generate_employee_records(n, RECORD_SEED).val : n \in 0..MaxCount}

CallGenerateEmployeeRecords ==
  \E count \in CountInputs, seed \in Seeds :
    LET r == generate_employee_records(count, seed)
    IN /\ r.err # Hang
       /\ ret' = Outcome("generate_employee_records", <<count, seed>>, r)
       /\ UNCHANGED <<stream, cacheVars, noted, driverVars, frame>>

CallGenerateQuestions ==
  \E records \in RecordInputs, count \in CountInputs, seed \in Seeds :
    LET r == generate_questions(records, count, seed)
    IN /\ r.err # Hang
       /\ ret' = Outcome("generate_questions", <<records, count, seed>>, r)
       /\ UNCHANGED <<stream, cacheVars, noted, driverVars, frame>>

\* an observer remembers the generator call that just returned a sequence
NoteCall ==
  /\ ret.op \in {"generate_employee_records", "generate_questions"}
  /\ ret.val # <<>>
  /\ noted' = [call |-> ret, cached |-> DOMAIN RECORDS_CACHE]
  /\ noted' # noted
  /\ UNCHANGED <<stream, cacheVars, ret, driverVars, frame>>

----------------------------------------------------------------------------
(* The cached layer.  An operation takes the caches as a record w (with the
   generation work done so far in the call) and returns the caches after it,
   the error it raised ("" when it returned) and its value. *)

Caches ==
  [rc |-> RECORDS_CACHE, qc |-> QUESTIONS_CACHE, fc |-> FORMATTED_CACHE,
   sc |-> SAMPLES_CACHE, work |-> NoWork]

Raise(w, err) == [w |-> w, err |-> err, val |-> <<>>]

Return(w, val) == [w |-> w, err |-> "", val |-> val]

InCache_never(cache, key) == FALSE

\* key in cache
InCache(cache, key) == key \in DOMAIN cache

\* cache[key] = val
Store(cache, key, val) == (key :> val) @@ cache

nonpositive_strict(n) == n < 0

\* the size test of get_records and get_questions
nonpositive(n) == n <= 0

\* RECORDS_CACHE[num_records] = generate_employee_records(...), g being
\* what the generator returned
store_records(w, num_records, g) ==
  IF g.err # "" THEN Raise(w, g.err)
  ELSE LET w2 == [w EXCEPT !.rc = Store(@, num_records, g.val),
                           !.work.records = @ + 1]
       IN Return(w2, w2.rc[num_records])

get_records(w, num_records) ==
  IF nonpositive(num_records) THEN Raise(w, "ValueError")
  ELSE IF ~InCache(w.rc, num_records)
       THEN store_records(w, num_records,
                          generate_employee_records(num_records, RECORD_SEED))
  ELSE Return(w, w.rc[num_records])

\* QUESTIONS_CACHE[key] = generate_questions(...), g being what the generator
\* returned
store_questions(w, key, g) ==
  LET w1 == [w EXCEPT !.work.questions = @ + 1]
  IN IF g.err # "" THEN Raise(w1, g.err)
     ELSE LET w2 == [w1 EXCEPT !.qc = Store(@, key, g.val)]
          IN Return(w2, w2.qc[key])

\* the questions on the records, r being what get_records returned
questions_on(r, key, num_questions) ==
  IF r.err # "" THEN r
  ELSE store_questions(r.w, key,
                       generate_questions(r.val, num_questions, QUESTION_SEED))

get_questions(w, num_records, num_questions) ==
  IF nonpositive(num_questions) THEN Raise(w, "ValueError")
  ELSE
    LET key == <<num_records, num_questions>>
    IN IF ~InCache(w.qc, key)
       THEN questions_on(get_records(w, num_records), key, num_questions)
       ELSE Return(w, w.qc[key])

\* FORMATTED_CACHE[key] = formatter(records), r being what get_records returned
store_formatted(r, key, format_key) ==
  IF r.err # "" THEN r
  ELSE IF format_key \notin FORMAT_KEYS THEN Raise(r.w, "KeyError")
  ELSE LET w2 == [r.w EXCEPT !.fc = Store(@, key, Formatter(format_key, r.val)),
                             !.work.formatter = @ + 1]
       IN Return(w2, w2.fc[key])

get_formatted_data(w, format_key, num_records) ==
  LET key == <<format_key, num_records>>
  IN IF ~InCache(w.fc, key)
     THEN store_formatted(get_records(w, num_records), key, format_key)
     ELSE Return(w, w.fc[key])

\* the samples of build_samples, d being what get_formatted_data returned and
\* q what get_questions returned
assemble_samples(d, q, format_key, num_records, num_questions) ==
  LET cache_key == <<format_key, num_records, num_questions>>
  IN IF q.err # "" THEN q
     ELSE
       LET dataset_block == d.val
           questions == q.val
           label == FormatLabel(format_key)
           intro ==
             <<"You are provided with ">> \o Str(num_records)
               \o <<" employee records formatted as ", label, ".\n",
                    "Each record includes the fields: id, name, age, city, department, salary, years_experience, project_count.\n",
                    "Use the data to answer the question.\n",
                    "DATA START">>
           outro == <<"DATA END">>
           sample(idx) ==
             LET qa == questions[idx + 1]
                 prompt == intro \o <<"\n\n">> \o dataset_block \o <<"\n">>
                             \o outro \o <<"\n\n">> \o <<"Question: ">>
                             \o qa.question \o <<"\n">> \o <<"Answer:">>
             IN [id |-> <<format_key, "-">> \o Str(idx),
                 input |-> prompt,
                 target |-> qa["answer"],
                 metadata |->
                   [format |-> format_key,
                    format_label |-> label,
                    record_id |-> qa.record_id,
                    field |-> qa.field,
                    question |-> qa.question,
                    num_records |-> num_records,
                    num_questions |-> num_questions]]
           samples == [n \in 1..Len(questions) |-> sample(n - 1)]
           w2 == [q.w EXCEPT !.sc = Store(@, cache_key, samples)]
       IN Return(w2, samples)

\* the questions of build_samples, d being what get_formatted_data returned
samples_on(d, format_key, num_records, num_questions) ==
  IF d.err # "" THEN d
  ELSE assemble_samples(d, get_questions(d.w, num_records, num_questions),
                        format_key, num_records, num_questions)

build_samples(w, format_key, num_records, num_questions) ==
  LET cache_key == <<format_key, num_records, num_questions>>
  IN IF InCache(w.sc, cache_key) THEN Return(w, w.sc[cache_key])
     ELSE IF format_key \notin FORMAT_KEYS THEN Raise(w, "KeyError")
     ELSE samples_on(get_formatted_data(w, format_key, num_records),
                     format_key, num_records, num_questions)

\* the outcome of a call of the cached layer, as the state after it
Cached(op, args, r) ==
  /\ r.err # Hang
  /\ RECORDS_CACHE' = r.w.rc
  /\ QUESTIONS_CACHE' = r.w.qc
  /\ FORMATTED_CACHE' = r.w.fc
  /\ SAMPLES_CACHE' = r.w.sc
  /\ ret' = [op |-> op, args |-> args, err |-> r.err, val |-> r.val,
             work |-> r.w.work,
             repeat |-> op = "build_samples" /\ args \in DOMAIN history]
  /\ history' = IF op = "build_samples" /\ r.err = "" /\ args \notin DOMAIN history
                THEN Store(history, args, r.val)
                ELSE history
  /\ UNCHANGED <<stream, noted, driverVars, frame>>

\* a key FORMAT_SPECS does not hold
UnknownFormat == "toml"

\* the format keys the calls are made with: a registry key and an unknown one
FormatInputs == {FORMAT_ORDER[NumFormats], UnknownFormat}

RecordSizes == (0 - 1)..MaxRecords

\* the question counts the calls are made with: the non-positive ones and the
\* largest
QuestionSizes == {0 - 1, 0, MaxQuestions}

CallGetRecords ==
  \E num_records \in RecordSizes :
    Cached("get_records", <<num_records>>, get_records(Caches, num_records))

CallGetQuestions ==
  \E num_records \in RecordSizes, num_questions \in QuestionSizes :
    Cached("get_questions", <<num_records, num_questions>>,
           get_questions(Caches, num_records, num_questions))

CallGetFormattedData ==
  \E format_key \in FormatInputs, num_records \in RecordSizes :
    Cached("get_formatted_data", <<format_key, num_records>>,
           get_formatted_data(Caches, format_key, num_records))

CallBuildSamples ==
  \E format_key \in FormatInputs, num_records \in RecordSizes,
     num_questions \in QuestionSizes :
    Cached("build_samples", <<format_key, num_records, num_questions>>,
           build_samples(Caches, format_key, num_records, num_questions))

\* an encoder called on the records generate_employee_records returns
CallFormatter ==
  \E key \in FORMAT_KEYS, count \in 0..MaxCount :
    LET g == generate_employee_records(count, RECORD_SEED)
    IN /\ g.err = ""
       /\ ret' = Outcome("formatter", <<key, g.val>>,
                         [err |-> "", val |-> Formatter(key, g.val)])
       /\ UNCHANGED <<stream, cacheVars, noted, driverVars, frame>>

----------------------------------------------------------------------------
(* scripts/run_benchmarks.py *)

\* FORMAT_KEYS of run_benchmarks.py, the choices of --formats
DRIVER_FORMAT_KEYS ==
  <<"json", "csv", "xml", "yaml", "html", "markdown_table", "markdown_kv", "ini",
    "pipe_delimited", "jsonl", "natural_language">>

\* model identifiers, as texts
ModelInputs == { <<"openai", "/", "gpt-4.1-mini">>, <<"ollama", "/", "llama3", ":", "8b">> }

LogRootInputs == { <<>>, <<"inspect-logs">> }   \* <<>> is None: --no-logs

RECURSIVE SeqsUpTo(_, _)
SeqsUpTo(S, n) ==
  IF n = 0 THEN { <<>> }
  ELSE LET T == SeqsUpTo(S, n - 1)
       IN T \cup {Append(t, x) : t \in {u \in T : Len(u) = n - 1}, x \in S}

\* segment.replace("/", "_").replace(":", "_").replace(" ", "_")
sanitize(segment) ==
  [i \in 1..Len(segment) |-> IF segment[i] \in {"/", ":", " "} THEN "_" ELSE segment[i]]

failed_never(returncode) == FALSE

\* subprocess.run(cmd, check=True) raises CalledProcessError
failed(returncode) == returncode # 0

\* exit statuses of the harness
ReturnCodes == {0, 1, 2}

\* the log directory of the pair, <<>> when logging is disabled
LogDir(root, model, fmt) ==
  IF root = <<>> THEN <<>> ELSE root \o <<"/">> \o sanitize(model) \o <<"/", fmt>>

\* main() calls run_evaluations with parsed arguments
StartEvaluations ==
  /\ pc = "idle"
  /\ \E ms \in SeqsUpTo(ModelInputs, MaxModels),
        fs \in SeqsUpTo({DRIVER_FORMAT_KEYS[i] : i \in 1..Len(DRIVER_FORMAT_KEYS)}, MaxFormats),
        root \in LogRootInputs :
       /\ models' = ms
       /\ formats' = fs
       /\ log_root' = root
       /\ pc' = IF Len(ms) = 0 \/ Len(fs) = 0 THEN "done" ELSE "running"
  /\ mi' = 1
  /\ fi' = 1
  /\ UNCHANGED <<stream, cacheVars, ret, noted, harness, printed, exit_code, frame>>

\* one iteration of the inner loop of run_evaluations
RunEvaluation ==
  /\ pc = "running"
  /\ \E returncode \in ReturnCodes :
       LET model == models[mi]
           fmt == formats[fi]
           task_name == <<"evals/table_formats_eval.py@table_formats_", fmt>>
           log_dir == LogDir(log_root, model, fmt)
           running == <<"\n", "<arrow> Running ", fmt, " format on ">> \o model \o <<"...">>
           failure == <<"<cross> Eval failed for format=", fmt, ", model=">> \o model
                        \o <<" (exit code ">> \o Str(returncode) \o <<")">>
           logs == <<"  Inspect logs: ">> \o log_dir
           last == fi = Len(formats) /\ mi = Len(models)
       IN /\ harness' = Append(harness, [task |-> task_name, model |-> model, fmt |-> fmt,
                                         log_dir |-> log_dir, returncode |-> returncode])
          /\ IF failed(returncode)
             THEN /\ printed' = printed \o <<running, failure>>
                                  \o (IF log_dir # <<>> THEN <<logs>> ELSE <<>>)
                  /\ pc' = "raised"
                  /\ exit_code' = 1
                  /\ UNCHANGED <<mi, fi>>
             ELSE /\ printed' = Append(printed, running)
                  /\ pc' = IF last THEN "done" ELSE "running"
                  /\ fi' = IF fi = Len(formats) THEN 1 ELSE fi + 1
                  /\ mi' = IF fi = Len(formats) /\ ~last THEN mi + 1 ELSE mi
                  /\ UNCHANGED exit_code
  /\ UNCHANGED <<stream, cacheVars, ret, noted, models, formats, log_root, frame>>

InitCaches ==
  /\ RECORDS_CACHE = <<>>
  /\ QUESTIONS_CACHE = <<>>
  /\ FORMATTED_CACHE = <<>>
  /\ SAMPLES_CACHE = <<>>
  /\ history = <<>>

\* no call of generate_employee_records is running step by step
NoFrame ==
  [pc |-> "idle", count |-> 0, idx |-> 0, used_names |-> {}, candidate |-> <<>>,
   retried |-> FALSE]

InitCalls ==
  /\ ret = Start
  /\ noted = [call |-> Start, cached |-> {}]
  /\ frame = NoFrame

InitDriverIdle ==
  /\ models = <<>>
  /\ formats = <<>>
  /\ log_root = <<>>
  /\ pc = "idle"
  /\ mi = 1
  /\ fi = 1
  /\ harness = <<>>
  /\ printed = <<>>
  /\ exit_code = 0

\* streams that rise from the least to the greatest variate
\* the streams whose variates never fall
SortedStreams ==
  {t \in Streams : \A k \in 1..(StreamPeriod - 1) : t[k] <= t[k + 1]}

\* the streams that step once from the least variate to the greatest
RisingStreams ==
  {t \in SortedStreams : /\ t[1] = 0
                         /\ t[StreamPeriod] = RngMax
                         /\ \A k \in 1..StreamPeriod : t[k] \in {0, RngMax}}

Init ==
  /\ \E t \in RisingStreams :
       stream = [s \in Seeds |-> IF s = RECORD_SEED THEN t ELSE Mirror(t)]
  /\ InitCaches
  /\ InitCalls
  /\ InitDriverIdle

Next ==
  \/ CallBuildSamples
  \/ CallGetRecords
  \/ CallGetQuestions
  \/ CallGetFormattedData

Spec == Init /\ [][Next]_vars

InitGen ==
  /\ \E t \in Streams :
       stream = [s \in Seeds |-> IF s = RECORD_SEED THEN t ELSE Mirror(t)]
  /\ InitCaches
  /\ InitCalls
  /\ InitDriverIdle

InitFmt ==
  /\ \E t \in SortedStreams :
       stream = [s \in Seeds |-> IF s = RECORD_SEED THEN t ELSE Mirror(t)]
  /\ InitCaches
  /\ InitCalls
  /\ InitDriverIdle

NextFmt == CallFormatter

SpecFmt == InitFmt /\ [][NextFmt]_vars

InitDriver ==
  /\ stream = [s \in Seeds |-> [k \in 1..StreamPeriod |-> 0]]
  /\ InitCaches
  /\ InitCalls
  /\ InitDriverIdle

NextDriver ==
  \/ StartEvaluations
  \/ RunEvaluation

SpecDriver == InitDriver /\ [][NextDriver]_vars

NextGen ==
  \/ CallGenerateEmployeeRecords
  \/ CallGenerateQuestions

SpecGen == InitGen /\ [][NextGen]_vars

NextArgs ==
  \/ CallGenerateEmployeeRecords
  \/ CallGenerateQuestions
  \/ CallGetRecords
  \/ CallGetQuestions

SpecArgs == Init /\ [][NextArgs]_vars

NextDet ==
  \/ CallGenerateEmployeeRecords
  \/ CallGenerateQuestions
  \/ CallGetRecords
  \/ NoteCall

SpecDet == Init /\ [][NextDet]_vars

----------------------------------------------------------------------------
(* generate_employee_records step by step: one step per sample of
   _random_name.  The samples are drawn freely, every candidate being one the
   generator can yield; the pools are cut to their first entries. *)

first_pool == SubSeq(FIRST_NAMES, 1, 3)

letter_pool == SubSeq(ascii_uppercase, 1, 1)

number_pool == 0..MaxNumber

Candidate_unnumbered(first, suffix_letter, suffix_number) ==
  <<first, " ", suffix_letter>>

\* f"{first} {suffix_letter}{suffix_number:03d}"
Candidate(first, suffix_letter, suffix_number) ==
  <<first, " ", suffix_letter>> \o Pad3(suffix_number)

\* the counts the stepwise call is made with
LoopCounts == (0 - 1)..(Len(first_pool) * Len(letter_pool) * Cardinality(number_pool) + 1)

\* generate_employee_records(count, seed) is entered: the loop starts at idx 1
\* with no name used, and is over at once when range(1, count + 1) is empty
EnterGenerate ==
  \E count \in LoopCounts :
    /\ frame.pc \in {"idle", "returned"}
    /\ frame' = [pc |-> IF count >= 1 THEN "draw" ELSE "returned",
                 count |-> count, idx |-> 1, used_names |-> {},
                 candidate |-> <<>>, retried |-> FALSE]
    /\ UNCHANGED <<stream, cacheVars, ret, noted, driverVars>>

\* one turn of the while loop of _random_name; an unused candidate ends the
\* loop, the rest of the body of the for loop runs and idx moves on
Sample(first, suffix_letter, suffix_number) ==
  /\ frame.pc = "draw"
  /\ LET candidate == Candidate(first, suffix_letter, suffix_number)
     IN IF unused(candidate, frame.used_names)
        THEN frame' = [frame EXCEPT
                         !.candidate = candidate,
                         !.used_names = @ \cup {candidate},
                         !.idx = @ + 1,
                         !.pc = IF frame.idx + 1 > frame.count
                                THEN "returned" ELSE "draw"]
        ELSE frame' = [frame EXCEPT !.candidate = candidate, !.retried = TRUE]
  /\ UNCHANGED <<stream, cacheVars, ret, noted, driverVars>>

DrawName ==
  \E i \in 1..Len(first_pool), j \in 1..Len(letter_pool), n \in number_pool :
    Sample(first_pool[i], letter_pool[j], n)

InitLoop ==
  /\ stream = [s \in Seeds |-> [k \in 1..StreamPeriod |-> 0]]
  /\ InitCaches
  /\ InitCalls
  /\ InitDriverIdle

NextLoop ==
  \/ EnterGenerate
  \/ DrawName

\* fair sampling: a candidate that stays drawable is drawn in the end
FairSampling ==
  \A i \in 1..Len(first_pool), j \in 1..Len(letter_pool), n \in number_pool :
    WF_vars(Sample(first_pool[i], letter_pool[j], n))

SpecLoop == InitLoop /\ [][NextLoop]_vars /\ FairSampling

----------------------------------------------------------------------------
(* Properties *)

\* the eleven registry keys
ElevenKeys ==
  {"json", "csv", "xml", "yaml", "html", "markdown_table", "markdown_kv", "ini",
   "pipe_delimited", "jsonl", "natural_language"}

Generators == {"generate_employee_records", "generate_questions"}

\* the count argument of a direct generator call
CountOf(call) == IF call.op = "generate_employee_records" THEN call.args[1] ELSE call.args[2]

\* C1: build_samples raises KeyError for every format_key outside the eleven
\* registry keys and ValueError for every registered key with num_records <= 0
\* or num_questions <= 0; it returns nothing then, and SAMPLES_CACHE never
\* holds an entry for such arguments.
C1_BuildSamplesRejects ==
  /\ ret.op = "build_samples" =>
       LET format_key == ret.args[1]
           num_records == ret.args[2]
           num_questions == ret.args[3]
       IN /\ format_key \notin ElevenKeys => (ret.err = "KeyError" /\ ret.val = <<>>)
          /\ (format_key \in ElevenKeys /\ (num_records <= 0 \/ num_questions <= 0))
               => (ret.err = "ValueError" /\ ret.val = <<>>)
  /\ \A key \in DOMAIN SAMPLES_CACHE :
       key[1] \in ElevenKeys /\ key[2] > 0 /\ key[3] > 0

\* a registered format and a positive num_records, formatted and cached, but
\* num_questions <= 0: build_samples raised and stored no samples
C1_Witness ==
  /\ ret.op = "build_samples"
  /\ ret.err = "ValueError"
  /\ ret.args[2] > 0
  /\ <<ret.args[1], ret.args[2]>> \in DOMAIN FORMATTED_CACHE
  /\ ret.args \notin DOMAIN SAMPLES_CACHE

\* C2 as claimed: generate_employee_records and generate_questions reject every
\* count <= 0 with ValueError.
C2_GeneratorsReject ==
  (ret.op \in Generators /\ CountOf(ret) <= 0) => ret.err = "ValueError"

\* C2: get_records and get_questions reject every num_records <= 0 and every
\* num_questions <= 0 with ValueError; generate_employee_records and
\* generate_questions, called with count <= 0, return the empty sequence.
C2_AccessorsReject ==
  /\ (ret.op = "get_records" /\ ret.args[1] <= 0) => ret.err = "ValueError"
  /\ (ret.op = "get_questions" /\ (ret.args[1] <= 0 \/ ret.args[2] <= 0))
       => ret.err = "ValueError"
  /\ (ret.op \in Generators /\ CountOf(ret) <= 0) => (ret.err = "" /\ ret.val = <<>>)
  /\ \A n \in DOMAIN RECORDS_CACHE : n > 0
  /\ \A key \in DOMAIN QUESTIONS_CACHE : key[1] > 0 /\ key[2] > 0

\* get_questions raised for num_questions <= 0 although the records are cached
C2_Witness ==
  /\ ret.op = "get_questions"
  /\ ret.args[1] \in DOMAIN RECORDS_CACHE
  /\ ret.args[2] <= 0
  /\ ret.err = "ValueError"

\* C3: a build_samples call whose arguments equal those of an earlier successful
\* call returns a sequence equal to the earlier result and invokes neither
\* generate_employee_records, nor generate_questions, nor any formatter.
C3_RepeatIsCached ==
  (ret.op = "build_samples" /\ ret.repeat) =>
    /\ ret.err = ""
    /\ ret.val = history[ret.args]
    /\ ret.work = NoWork

\* a repeated call, after successful calls with other arguments
C3_Witness ==
  /\ ret.op = "build_samples"
  /\ ret.repeat
  /\ Cardinality(DOMAIN history) >= 2
  /\ Len(ret.val) > 0

\* C4: the names of the records one call of generate_employee_records returns
\* are pairwise distinct.
C4_NamesDistinct ==
  (ret.op = "generate_employee_records" /\ ret.err = "") =>
    \A i, j \in 1..Len(ret.val) : i # j => ret.val[i].name # ret.val[j].name

\* the candidate name the stream of seed yields from position pos on
CandidateAt(seed, pos) ==
  LET rng == [seed |-> seed, pos |-> pos]
  IN <<choice(FIRST_NAMES, Variate(rng, 1)), " ", choice(ascii_uppercase, Variate(rng, 2))>>
       \o Pad3(randint(0, 999, Variate(rng, 3)))

\* two records were returned although the first candidate drawn for the second
\* record was the name of the first
C4_Witness ==
  /\ ret.op = "generate_employee_records"
  /\ Len(ret.val) >= 2
  /\ CandidateAt(ret.args[2], 9) = ret.val[1].name

\* C5: every record generate_employee_records returns has 22 <= age <= 67,
\* 0 <= years_experience <= max(0, age - 18), 45000 <= salary <= 165000 and
\* 0 <= project_count <= 60, and the record at position i has id i.
C5_RecordBounds ==
  (ret.op = "generate_employee_records" /\ ret.err = "") =>
    /\ Len(ret.val) = Max(0, ret.args[1])
    /\ \A i \in 1..Len(ret.val) :
         LET r == ret.val[i]
         IN /\ r.id = i
            /\ 22 <= r.age /\ r.age <= 67
            /\ 0 <= r.years_experience
            /\ r.years_experience <= (IF r.age - 18 > 0 THEN r.age - 18 ELSE 0)
            /\ 45000 <= r.salary /\ r.salary <= 165000
            /\ 0 <= r.project_count /\ r.project_count <= 60

\* several records, one of them with the greatest experience its age allows
C5_Witness ==
  /\ ret.op = "generate_employee_records"
  /\ Len(ret.val) >= 2
  /\ \E i \in 1..Len(ret.val) :
       ret.val[i].age > 22 /\ ret.val[i].years_experience = ret.val[i].age - 18

DigitValue(c) ==
  CASE c = "0" -> 0 [] c = "1" -> 1 [] c = "2" -> 2 [] c = "3" -> 3 [] c = "4" -> 4
    [] c = "5" -> 5 [] c = "6" -> 6 [] c = "7" -> 7 [] c = "8" -> 8 [] c = "9" -> 9

RECURSIVE DecimalValue(_)
DecimalValue(t) ==
  IF Len(t) = 0 THEN 0
  ELSE 10 * DecimalValue(SubSeq(t, 1, Len(t) - 1)) + DigitValue(t[Len(t)])

\* t is the decimal string of the non-negative integer n
IsDecimalOf(t, n) ==
  /\ Len(t) >= 1
  /\ \A i \in 1..Len(t) : t[i] \in {"0", "1", "2", "3", "4", "5", "6", "7", "8", "9"}
  /\ Len(t) > 1 => t[1] # "0"
  /\ DecimalValue(t) = n

\* C6: every question/answer pair names one of the four numeric fields and the
\* id of a record of the input sequence, and its answer is the decimal string
\* of that record's value of that field; the evaluation case build_samples
\* builds from the pair has the answer as its target and the pair's record_id
\* and field in its metadata.
C6_AnswerFidelity ==
  /\ \A key \in DOMAIN QUESTIONS_CACHE :
       \A i \in 1..Len(QUESTIONS_CACHE[key]) :
         LET qa == QUESTIONS_CACHE[key][i]
             records == RECORDS_CACHE[key[1]]
         IN /\ qa.field \in {"salary", "years_experience", "age", "project_count"}
            /\ \E n \in 1..Len(records) :
                 /\ records[n].id = qa.record_id
                 /\ IsDecimalOf(qa.answer, records[n][qa.field])
  /\ \A key \in DOMAIN SAMPLES_CACHE :
       LET samples == SAMPLES_CACHE[key]
           questions == QUESTIONS_CACHE[<<key[2], key[3]>>]
       IN /\ Len(samples) = Len(questions)
          /\ Len(samples) = key[3]
          /\ \A i \in 1..Len(samples) :
               /\ samples[i].target = questions[i].answer
               /\ samples[i].metadata.record_id = questions[i].record_id
               /\ samples[i].metadata.field = questions[i].field

\* an evaluation case about a field other than salary of the second of two records
C6_Witness ==
  \E key \in DOMAIN SAMPLES_CACHE :
    /\ key[2] >= 2
    /\ \E i \in 1..Len(SAMPLES_CACHE[key]) :
         /\ SAMPLES_CACHE[key][i].metadata.record_id = 2
         /\ SAMPLES_CACHE[key][i].metadata.field # "salary"

\* the encoder call the state records was made on no records
OnEmpty == ret.op = "formatter" /\ Len(ret.args[2]) = 0

\* C7 as claimed: on an empty record sequence every encoder returns the empty
\* string, except format_json ("[]"), format_yaml and format_natural_language
\* (their leading line).
C7_EmptyAsClaimed ==
  OnEmpty =>
    CASE ret.args[1] = "json" -> ret.val = <<"[]">>
      [] ret.args[1] = "yaml" -> ret.val = <<"records:">>
      [] ret.args[1] = "natural_language" -> ret.val = <<"Employee Records Summary:">>
      [] OTHER -> ret.val = <<>>

\* C7: on an empty record sequence csv, html, markdown_table, pipe_delimited,
\* jsonl and ini return the empty string; json returns "[]"; yaml,
\* natural_language and markdown_kv return only their leading line; xml returns
\* the declaration line and an empty employees element.
C7_EmptyOutputs ==
  OnEmpty =>
    CASE ret.args[1] = "json" -> ret.val = <<"[]">>
      [] ret.args[1] = "yaml" -> ret.val = <<"records:">>
      [] ret.args[1] = "natural_language" -> ret.val = <<"Employee Records Summary:">>
      [] ret.args[1] = "markdown_kv" -> ret.val = <<"# Employee Database">>
      [] ret.args[1] = "xml" ->
           ret.val = <<"<?xml version=\"1.0\" encoding=\"UTF-8\"?>", "\n",
                       "<employees>", "\n", "</employees>">>
      [] OTHER -> ret.val = <<>>

\* the xml encoder returned on no records
C7_Witness == OnEmpty /\ ret.args[1] = "xml" /\ Len(ret.val) > 0

\* the least position from which pat occurs in text at or after from, else 0
RECURSIVE Find(_, _, _)
Find(text, pat, from) ==
  IF from + Len(pat) - 1 > Len(text) THEN 0
  ELSE IF SubSeq(text, from, from + Len(pat) - 1) = pat THEN from
  ELSE Find(text, pat, from + 1)

\* the texts of pats occur in text one after the other, in the order of pats
RECURSIVE InOrder(_, _, _)
InOrder(text, pats, from) ==
  IF Len(pats) = 0 THEN TRUE
  ELSE LET at == Find(text, pats[1], from)
       IN at # 0 /\ InOrder(text, Tail(pats), at + Len(pats[1]))

\* the field order every encoder is claimed to keep
ClaimedOrder ==
  <<"id", "name", "age", "city", "department", "salary", "years_experience",
    "project_count">>

\* the order of the fields in the sentence of format_natural_language
SentenceOrder ==
  <<"name", "id", "age", "department", "city", "salary", "years_experience",
    "project_count">>

\* str() of the value of a field
ValueText(record, key) ==
  IF key = "name" THEN record.name
  ELSE IF key \in {"city", "department"} THEN <<record[key]>>
  ELSE Str(record[key])

\* the values of the fields of all records, record by record, in the given order
Values(records, order) ==
  Flatten([n \in 1..Len(records) |->
             [i \in 1..Len(order) |-> ValueText(records[n], order[i])]])

OnRecords == ret.op = "formatter" /\ Len(ret.args[2]) > 0

\* C8 as claimed: for every non-empty record sequence the output of each of the
\* eleven encoders holds, record by record in input order, the values of the
\* eight fields in the order id, name, age, city, department, salary,
\* years_experience, project_count.
C8_OrderAsClaimed ==
  OnRecords => InOrder(ret.val, Values(ret.args[2], ClaimedOrder), 1)

\* C8: for every non-empty record sequence the output of each encoder holds,
\* record by record in input order, the values of all eight fields; within a
\* record they are in the order id, name, age, city, department, salary,
\* years_experience, project_count, except in format_natural_language, whose
\* sentence has them in the order name, id, age, department, city, salary,
\* years_experience, project_count.
C8_FieldsInOrder ==
  OnRecords =>
    InOrder(ret.val,
            Values(ret.args[2],
                   IF ret.args[1] = "natural_language" THEN SentenceOrder
                   ELSE ClaimedOrder),
            1)

\* the natural-language encoder returned on two records
C8_Witness ==
  /\ OnRecords
  /\ ret.args[1] = "natural_language"
  /\ Len(ret.args[2]) >= 2
  /\ Len(ret.val) > 0

\* the (model, format) pairs in model-major order
AllPairs ==
  [k \in 1..(Len(models) * Len(formats)) |->
     <<models[((k - 1) \div Len(formats)) + 1], formats[((k - 1) % Len(formats)) + 1]>>]

Launched == [k \in 1..Len(harness) |-> <<harness[k].model, harness[k].fmt>>]

\* C9: run_evaluations invokes the harness once per (model, format) pair in
\* model-major order; after an invocation that exits non-zero it launches
\* nothing more (no retry, no later pair), has printed the failing format and
\* model (and the log directory when logging is enabled) and the driver exits
\* non-zero; when no invocation fails every pair is invoked exactly once.
C9_DriverStopsAtFailure ==
  /\ Len(harness) <= Len(AllPairs)
  /\ Launched = SubSeq(AllPairs, 1, Len(harness))
  /\ \A k \in 1..(Len(harness) - 1) : harness[k].returncode = 0
  /\ pc = "done" =>
       /\ Launched = AllPairs
       /\ \A k \in 1..Len(harness) : harness[k].returncode = 0
       /\ exit_code = 0
  /\ pc = "raised" => (Len(harness) > 0 /\ harness[Len(harness)].returncode # 0)
  /\ (Len(harness) > 0 /\ harness[Len(harness)].returncode # 0) =>
       LET h == harness[Len(harness)]
           logging == log_root # <<>>
           line == printed[Len(printed) - (IF logging THEN 1 ELSE 0)]
       IN /\ pc = "raised"
          /\ exit_code # 0
          /\ line[1] # "\n"
          /\ Find(line, <<h.fmt>>, 1) # 0
          /\ Find(line, h.model, 1) # 0
          /\ logging =>
               Find(printed[Len(printed)],
                    log_root \o <<"/">> \o sanitize(h.model) \o <<"/", h.fmt>>, 1) # 0

\* an invocation failed after an earlier one succeeded, with pairs left over
\* and logging enabled
C9_Witness ==
  /\ pc = "raised"
  /\ Len(harness) >= 2
  /\ Len(harness) < Len(AllPairs)
  /\ log_root # <<>>

NameCount == Len(first_pool) * Len(letter_pool) * Cardinality(number_pool)

AllCandidates ==
  {Candidate(first_pool[i], letter_pool[j], n) :
     i \in 1..Len(first_pool), j \in 1..Len(letter_pool), n \in number_pool}

\* C11: under fair sampling a call of generate_employee_records with count at
\* most the number of distinct candidate names returns; with a larger count it
\* never returns, and once every name is used no sample is an unused name
C11_TerminatesWithinNames ==
  /\ (frame.pc = "draw" /\ frame.count <= NameCount) ~> (frame.pc = "returned")
  /\ [](frame.count > NameCount => frame.pc # "returned")
  /\ [](frame.pc = "draw" /\ frame.idx > NameCount
          => \A c \in AllCandidates : ~unused(c, frame.used_names))

\* a call with as many records as there are names has returned, after at
\* least one sample was rejected
C11_Witness ==
  /\ frame.pc = "returned"
  /\ frame.count = NameCount
  /\ Cardinality(frame.used_names) = NameCount
  /\ frame.retried

====
